---- MODULE Spec2Model ----
(***************************************************************************)
(* The HITL router of src/src/router/hitl_router.py as a state machine:    *)
(* route() calls on one HITLRouter, each running validate_role, risk_scan, *)
(* log_proposal and human_review in turn, interleaved step by step.        *)
(* Text is a sequence of one-character strings, so that str.strip,         *)
(* str.lower and the substring test of risk_scan are computed.             *)
(***************************************************************************)
EXTENDS Integers, Sequences, FiniteSets, TLC

\* Number of route() calls of a run with several callers.
NumCalls == 2
\* Longest run of whitespace put before and after a submitted content.
MaxPad == 1

----------------------------------------------------------------------------
\* Text

UpperChars == <<"A", "B", "C", "D", "E", "F", "G", "H", "I", "J", "K", "L", "M", "N", "O", "P", "Q", "R", "S", "T", "U", "V", "W", "X", "Y", "Z">>
LowerChars == <<"a", "b", "c", "d", "e", "f", "g", "h", "i", "j", "k", "l", "m", "n", "o", "p", "q", "r", "s", "t", "u", "v", "w", "x", "y", "z">>

\* Characters str.strip() removes: space, tab, line feed, carriage return, form feed.
Whitespace == {" ", "\t", "\n", "\r", "\f"}

\* str.lower() on one character.
lower_char(ch) ==
    IF \E i \in DOMAIN UpperChars : UpperChars[i] = ch
    THEN LowerChars[CHOOSE i \in DOMAIN UpperChars : UpperChars[i] = ch]
    ELSE ch

\* str.lower()
lower(s) == [i \in DOMAIN s |-> lower_char(s[i])]

\* str.upper() on one character, used to build inputs only.
upper_char(ch) ==
    IF \E i \in DOMAIN LowerChars : LowerChars[i] = ch
    THEN UpperChars[CHOOSE i \in DOMAIN LowerChars : LowerChars[i] = ch]
    ELSE ch

upper(s) == [i \in DOMAIN s |-> upper_char(s[i])]

capitalize(s) == [i \in DOMAIN s |-> IF i = 1 THEN upper_char(s[i]) ELSE s[i]]

RECURSIVE lstrip(_)
lstrip(s) == IF s # <<>> /\ Head(s) \in Whitespace THEN lstrip(Tail(s)) ELSE s

RECURSIVE rstrip(_)
rstrip(s) ==
    IF s # <<>> /\ s[Len(s)] \in Whitespace
    THEN rstrip(SubSeq(s, 1, Len(s) - 1))
    ELSE s

\* str.strip()
strip(s) == rstrip(lstrip(s))

\* Python's `term in s` on strings.
contains(term, s) ==
    \E i \in 0..(Len(s) - Len(term)) : SubSeq(s, i + 1, i + Len(term)) = term

guarantee == <<"g", "u", "a", "r", "a", "n", "t", "e", "e">>
promise == <<"p", "r", "o", "m", "i", "s", "e">>
unstoppable == <<"u", "n", "s", "t", "o", "p", "p", "a", "b", "l", "e">>
perfect_accuracy == <<"p", "e", "r", "f", "e", "c", "t", " ", "a", "c", "c", "u", "r", "a", "c", "y">>

flagged_terms == <<guarantee, promise, unstoppable, perfect_accuracy>>

----------------------------------------------------------------------------
\* Values

\* class AgentRole(Enum): the five members, each with its name and value.
AgentRole ==
    { [cls |-> "AgentRole", name |-> "SOL", value |-> "architect"],
      [cls |-> "AgentRole", name |-> "MANI", value |-> "validator"],
      [cls |-> "AgentRole", name |-> "LOKI", value |-> "risk"],
      [cls |-> "AgentRole", name |-> "MUSE", value |-> "creative"],
      [cls |-> "AgentRole", name |-> "UNKNOWN", value |-> "unknown"] }

Member(n) == CHOOSE m \in AgentRole : m.name = n

\* A plain string handed in as a role: it is no member and has no .value.
StrRole(s) == [cls |-> "str", text |-> s]

\* Optional[Dict[str, Any]]: None, or a dict as its set of items.
None == [cls |-> "NoneType"]
Dict(items) == [cls |-> "dict", items |-> items]

\* Truthiness of a metadata value, as `metadata or {}` reads it.
truthy(md) == md.cls = "dict" /\ md.items # {}

\* @dataclass AgentProposal
AgentProposal(role, content, metadata) ==
    [role |-> role, content |-> content, metadata |-> metadata]

\* normalize with content.lstrip() in place of content.strip().
normalize_lstrip(role, content, metadata) ==
    AgentProposal(role, lstrip(content), IF truthy(metadata) THEN metadata ELSE Dict({}))

\* HITLRouter.normalize
normalize(role, content, metadata) ==
    AgentProposal(role, strip(content), IF truthy(metadata) THEN metadata ELSE Dict({}))

----------------------------------------------------------------------------
\* Inputs

hello == <<"h", "e", "l", "l", "o">>
check_schema == <<"P", "l", "e", "a", "s", "e", " ", "c", "h", "e", "c", "k", " ", "t", "h", "i", "s", " ", "s", "c", "h", "e", "m", "a">>
scenario_risky == <<"W", "e", " ", "g", "u", "a", "r", "a", "n", "t", "e", "e", " ", "p", "e", "r", "f", "e", "c", "t", " ", "a", "c", "c", "u", "r", "a", "c", "y">>
near_miss == <<"g", "u", "a", "r", "a", "n", "t", "e", " ", "e">>
double_space == <<"p", "e", "r", "f", "e", "c", "t", " ", " ", "a", "c", "c", "u", "r", "a", "c", "y">>

\* Contents without a flagged term, and contents with one in three letter cases.
SafeCores == {hello, check_schema, <<>>, near_miss, double_space}
RiskyCores ==
    {scenario_risky} \cup
    UNION { {flagged_terms[i], upper(flagged_terms[i]), capitalize(flagged_terms[i])} :
            i \in DOMAIN flagged_terms }

\* Padding: up to MaxPad spaces, or up to MaxPad line breaks.
PadChars == {" ", "\n"}
Pads == { [i \in 1..n |-> ch] : n \in 0..MaxPad, ch \in PadChars }

\* Every core as it is, and three of them with padding on either side.
PaddedCores == {hello, <<>>, upper(promise)}
RawContents ==
    SafeCores \cup RiskyCores \cup
    { pre \o core \o post : pre \in Pads, post \in Pads, core \in PaddedCores }

\* What a caller may put in the role field: a member, or a plain string.
Roles == AgentRole \cup {StrRole("ghost-role"), StrRole("architect")}

Metadatas == {None, Dict({}), Dict({<<"source", "test">>})}

\* A caller either builds the proposal with router.normalize (as submit does)
\* or constructs the AgentProposal itself.
Submissions ==
    [role : Roles, content : RawContents, metadata : Metadatas, via : {"normalize", "direct"}]

\* The submissions of a run with several callers.
ConcurrentSubmissions ==
    [role : {Member("SOL"), StrRole("ghost-role")},
     content : {hello, upper(promise)},
     metadata : {None, Dict({<<"source", "test">>})},
     via : {"normalize"}]

BuildProposal(s) ==
    IF s.via = "normalize"
    THEN normalize(s.role, s.content, s.metadata)
    ELSE AgentProposal(s.role, s.content, s.metadata)

----------------------------------------------------------------------------
\* State

VARIABLES
    python,      \* how this interpreter's Enum answers `x in AgentRole` for a non-member
    gate,        \* which human_review this router runs
    workload,    \* one caller with any submission, or several callers at once
    pc,          \* where each call stands
    submission,  \* what each caller submitted
    proposal,    \* the AgentProposal each call routes
    result,      \* the dict each call returned
    error,       \* the exception that left each call
    scanned,     \* how often each call ran risk_scan
    asked,       \* how often each call invoked human_review
    verdict,     \* what human_review answered each call
    log          \* HITLRouter.log

vars == <<python, gate, workload, pc, submission, proposal, result, error,
          scanned, asked, verdict, log>>

Calls == 1..NumCalls

Workloads == {"single", "concurrent"}

\* The route() calls of this run, and the submissions their callers draw from.
callers == IF workload = "single" THEN {1} ELSE Calls
pool == IF workload = "single" THEN Submissions ELSE ConcurrentSubmissions

\* Enum containment of a non-member: False with a DeprecationWarning (3.7),
\* TypeError (3.8 to 3.11), a lookup by value (3.12 on).
PythonBuilds == {"py37", "py38", "py312"}

\* The placeholder of the source, or a gate that routes to a human.
GateImpls == {"placeholder", "production"}

NoSubmission == [via |-> "none"]
NoProposal == [role |-> None]
NoResult == [status |-> "none"]

\* `x in AgentRole`
EnumContains(x) ==
    IF x \in AgentRole THEN "True"
    ELSE CASE python = "py37" -> "False"
           [] python = "py38" -> "TypeError"
           [] python = "py312" ->
                IF x.cls = "str" /\ \E m \in AgentRole : m.value = x.text
                THEN "True" ELSE "False"

\* validate_role as a lookup among the roles that have an agent: the fallback
\* member is turned away.
validate_role_known_only(p) ==
    IF p.role \in AgentRole /\ p.role.name = "UNKNOWN" THEN "False"
    ELSE EnumContains(p.role)

\* HITLRouter.validate_role
validate_role(p) == EnumContains(p.role)

\* risk_scan without the .lower(): the terms are matched as written.
risk_scan_case_sensitive(p) ==
    ~ \E i \in DOMAIN flagged_terms : contains(flagged_terms[i], p.content)

\* HITLRouter.risk_scan
risk_scan(p) ==
    ~ \E i \in DOMAIN flagged_terms : contains(flagged_terms[i], lower(p.content))

\* The dict log_proposal builds.
LedgerRecord(p) ==
    [role |-> p.role.value, content |-> p.content, metadata |-> p.metadata]

\* log_proposal with list.insert(0, ...) in place of list.append.
log_proposal_insert_first(lg, p) == <<LedgerRecord(p)>> \o lg

\* HITLRouter.log_proposal on the list lg.
log_proposal(lg, p) == Append(lg, LedgerRecord(p))

\* human_review deciding on the proposal's metadata: approve a proposal that
\* carries some, reject one that carries none.
human_review_by_metadata(p) == IF truthy(p.metadata) THEN "True" ELSE "False"

\* HITLRouter.human_review, the placeholder.
human_review(p) == "True"

\* What a gate that routes to a human can answer: approve, reject, or fail.
ProductionAnswers == {"True", "False", "TransportError"}

\* The rejected dict with the proposal echoed beside the reason.
Rejected_with_echo(reason) ==
    [status |-> "rejected", reason |-> reason, role |-> "unknown", content |-> <<>>]

Rejected(reason) == [status |-> "rejected", reason |-> reason]

\* The approved dict with the member's name where its value belongs.
Approved_role_name(p) == [status |-> "approved", role |-> p.role.name, content |-> p.content]

Approved(p) == [status |-> "approved", role |-> p.role.value, content |-> p.content]

Init ==
    /\ python \in PythonBuilds
    /\ gate \in GateImpls
    /\ workload \in Workloads
    /\ pc = [c \in Calls |-> "idle"]
    /\ submission = [c \in Calls |-> NoSubmission]
    /\ proposal = [c \in Calls |-> NoProposal]
    /\ result = [c \in Calls |-> NoResult]
    /\ error = [c \in Calls |-> "none"]
    /\ scanned = [c \in Calls |-> 0]
    /\ asked = [c \in Calls |-> 0]
    /\ verdict = [c \in Calls |-> "none"]
    /\ log = <<>>

\* route returns the dict d.
Return(c, d) ==
    /\ pc' = [pc EXCEPT ![c] = "returned"]
    /\ result' = [result EXCEPT ![c] = d]
    /\ UNCHANGED error

\* An exception leaves route: nothing in route catches it.
Raise(c, e) ==
    /\ pc' = [pc EXCEPT ![c] = "raised"]
    /\ error' = [error EXCEPT ![c] = e]
    /\ UNCHANGED result

\* route goes on to its next step.
Goto(c, step) ==
    /\ pc' = [pc EXCEPT ![c] = step]
    /\ UNCHANGED <<result, error>>

\* route under a lock taken on entry and held until the call ends: a call is
\* let in only when no other call is under way.
Start_one_at_a_time(c) ==
    /\ pc[c] = "idle"
    /\ \A d \in callers : d < c => pc[d] # "idle"
    /\ \A d \in callers : pc[d] \in {"idle", "returned", "raised"}
    /\ \E s \in pool :
        /\ submission' = [submission EXCEPT ![c] = s]
        /\ proposal' = [proposal EXCEPT ![c] = BuildProposal(s)]
    /\ Goto(c, "validate")
    /\ UNCHANGED <<python, gate, workload, scanned, asked, verdict, log>>

\* A caller builds its proposal and calls route. The calls of a run are
\* numbered in the order in which they are submitted.
Start(c) ==
    /\ pc[c] = "idle"
    /\ \A d \in callers : d < c => pc[d] # "idle"
    /\ \E s \in pool :
        /\ submission' = [submission EXCEPT ![c] = s]
        /\ proposal' = [proposal EXCEPT ![c] = BuildProposal(s)]
    /\ Goto(c, "validate")
    /\ UNCHANGED <<python, gate, workload, scanned, asked, verdict, log>>

\* Step 1 without its return: an invalid role falls through to the risk scan.
Validate_falls_through(c) ==
    /\ pc[c] = "validate"
    /\ LET v == validate_role(proposal[c]) IN
        CASE v = "TypeError" -> Raise(c, "TypeError")
          [] v = "False" -> Goto(c, "scan")
          [] v = "True" -> Goto(c, "scan")
    /\ UNCHANGED <<python, gate, workload, submission, proposal, scanned, asked,
                   verdict, log>>

\* Step 1: Validate
Validate(c) ==
    /\ pc[c] = "validate"
    /\ LET v == validate_role(proposal[c]) IN
        CASE v = "TypeError" -> Raise(c, "TypeError")
          [] v = "False" -> Return(c, Rejected("invalid-role"))
          [] v = "True" -> Goto(c, "scan")
    /\ UNCHANGED <<python, gate, workload, submission, proposal, scanned, asked,
                   verdict, log>>

\* Step 2 with the ledger written before the scan's verdict is acted on: a
\* proposal rejected as risk-detected is logged too.
Scan_logs_rejected(c) ==
    /\ pc[c] = "scan"
    /\ scanned' = [scanned EXCEPT ![c] = @ + 1]
    /\ IF risk_scan(proposal[c])
       THEN Goto(c, "log") /\ UNCHANGED log
       ELSE /\ Return(c, Rejected("risk-detected"))
            /\ log' = log_proposal(log, proposal[c])
    /\ UNCHANGED <<python, gate, workload, submission, proposal, asked, verdict>>

\* Step 2: Risk Scan
Scan(c) ==
    /\ pc[c] = "scan"
    /\ scanned' = [scanned EXCEPT ![c] = @ + 1]
    /\ IF risk_scan(proposal[c])
       THEN Goto(c, "log")
       ELSE Return(c, Rejected("risk-detected"))
    /\ UNCHANGED <<python, gate, workload, submission, proposal, asked, verdict, log>>

\* route with the ledger step wrapped in a try/except that goes on to the review.
LedgerFailureSwallowed(c, e) ==
    /\ pc' = [pc EXCEPT ![c] = "review"]
    /\ error' = [error EXCEPT ![c] = e]
    /\ UNCHANGED result

\* log_proposal did not complete: the exception leaves route.
LedgerFailure(c, e) == Raise(c, e)

\* Step 3: Ledger. proposal.role.value fails on a plain string; list.append
\* can run out of memory; otherwise the record is appended in one step.
Log(c) ==
    /\ pc[c] = "log"
    /\ \/ /\ proposal[c].role.cls = "AgentRole"
          /\ log' = log_proposal(log, proposal[c])
          /\ Goto(c, "review")
       \/ /\ proposal[c].role.cls = "AgentRole"
          /\ LedgerFailure(c, "MemoryError")
          /\ UNCHANGED log
       \/ /\ proposal[c].role.cls # "AgentRole"
          /\ LedgerFailure(c, "AttributeError")
          /\ UNCHANGED log
    /\ UNCHANGED <<python, gate, workload, submission, proposal, scanned, asked,
                   verdict>>

\* Step 4: Human Review, the call of human_review; the call then waits in it.
Review(c) ==
    /\ pc[c] = "review"
    /\ asked' = [asked EXCEPT ![c] = @ + 1]
    /\ Goto(c, "gate")
    /\ UNCHANGED <<python, gate, workload, submission, proposal, scanned, verdict, log>>

\* human_review answers, and route returns on the answer (Step 4, Step 5).
GateAnswer(c) ==
    /\ pc[c] = "gate"
    /\ \E a \in (IF gate = "placeholder" THEN {human_review(proposal[c])}
                 ELSE ProductionAnswers) :
        /\ verdict' = [verdict EXCEPT ![c] = a]
        /\ CASE a = "True" -> Return(c, Approved(proposal[c]))
             [] a = "False" -> Return(c, Rejected("human-rejected"))
             [] a = "TransportError" -> Raise(c, "TransportError")
    /\ UNCHANGED <<python, gate, workload, submission, proposal, scanned, asked, log>>

Next ==
    \/ \E c \in callers : Start(c)
    \/ \E c \in callers : Validate(c)
    \/ \E c \in callers : Scan(c)
    \/ \E c \in callers : Log(c)
    \/ \E c \in callers : Review(c)
    \/ \E c \in callers : GateAnswer(c)

Spec == Init /\ [][Next]_vars

----------------------------------------------------------------------------
\* Reading a state

Finished(c) == pc[c] \in {"returned", "raised"}

\* The keys of default_roles(): the role identifiers the registry knows.
default_roles == {"architect", "validator", "risk", "creative"}

\* The identifier a role field stands for: a member's value, or the string itself.
RoleId(role) == IF role.cls = "AgentRole" THEN role.value ELSE role.text

\* a and b are the same character up to ASCII letter case (term is lower case).
SameLetter(a, b) == a = b \/ a = upper_char(b)

\* s holds one of the flagged terms, in any mix of upper and lower case.
DenylistedAnyCase(s) ==
    \E t \in DOMAIN flagged_terms :
        \E i \in 0..(Len(s) - Len(flagged_terms[t])) :
            \A k \in 1..Len(flagged_terms[t]) : SameLetter(s[i + k], flagged_terms[t][k])

IsTrimmed(s) == s = <<>> \/ (s[1] \notin Whitespace /\ s[Len(s)] \notin Whitespace)

\* The exceptions that leave log_proposal.
LedgerErrors == {"MemoryError", "AttributeError"}

\* The record the ledger should hold for call c's proposal.
RecordFor(c) ==
    [role |-> RoleId(proposal[c].role), content |-> proposal[c].content,
     metadata |-> proposal[c].metadata]

----------------------------------------------------------------------------
\* Claims

\* C1: a call whose role identifier is none of architect, validator, risk,
\* creative returns rejected / invalid-role, and risk_scan is never run in it.
\* Stated as the claim has it; AgentRole.UNKNOWN passes validate_role.
C1_UnknownRoleRejected ==
    \A c \in Calls :
        (pc[c] \notin {"idle", "validate"} /\ RoleId(proposal[c].role) \notin default_roles)
            => /\ pc[c] = "returned"
               /\ result[c] = [status |-> "rejected", reason |-> "invalid-role"]
               /\ scanned[c] = 0

GateVerdictHonoured(c) ==
    /\ verdict[c] = "True" =>
        /\ pc[c] = "returned"
        /\ result[c] = [status |-> "approved", role |-> RoleId(proposal[c].role),
                        content |-> proposal[c].content]
        /\ submission[c].via = "normalize" =>
            /\ IsTrimmed(result[c].content)
            /\ contains(result[c].content, submission[c].content)
    /\ verdict[c] = "False" =>
        /\ pc[c] = "returned"
        /\ result[c] = [status |-> "rejected", reason |-> "human-rejected"]

C4_OneRecordPerCall ==
    (\A c \in Calls : pc[c] \in {"idle", "returned"})
        => Len(log) = Cardinality({c \in Calls : pc[c] = "returned"})

\* C5: every ledger record carries a non-empty correlation identifier, and no
\* two records of the ledger carry the same one.
C5_CorrelationIds ==
    \A i \in DOMAIN log :
        /\ "correlationId" \in DOMAIN log[i]
        /\ log[i].correlationId # ""
        /\ \A j \in DOMAIN log : j # i => log[j].correlationId # log[i].correlationId

\* C6: a call that log_proposal failed in has raised and returned nothing, and
\* a call that returned approved has its record in the ledger.
C6_ApprovedOnlyAfterAppend ==
    \A c \in Calls :
        /\ error[c] \in LedgerErrors => (pc[c] = "raised" /\ result[c] = NoResult)
        /\ result[c].status = "approved" => \E i \in DOMAIN log : log[i] = RecordFor(c)

\* C6 witness: one call was left by a failed append while another returned
\* approved with its record in the ledger.
C6_Witness ==
    \E c, d \in Calls :
        /\ error[c] = "MemoryError"
        /\ pc[c] = "raised"
        /\ result[d].status = "approved"
        /\ Len(log) = 1

\* C7: the record of a call that has returned carries that call's decision.
C7_RecordsCarryDecision ==
    \A c \in Calls :
        pc[c] = "returned" =>
            \A i \in DOMAIN log :
                (/\ log[i].role = RoleId(proposal[c].role)
                 /\ log[i].content = proposal[c].content
                 /\ log[i].metadata = proposal[c].metadata)
                    => /\ "decision" \in DOMAIN log[i]
                       /\ log[i].decision = result[c]

\* C8: every step leaves the ledger it found as a prefix of the ledger it
\* leaves: no record is removed, moved or changed.
C8_AppendOnly ==
    [][Len(log) <= Len(log') /\ SubSeq(log', 1, Len(log)) = log]_vars

\* C8 witness: two different records were appended, one after the other.
C8_Witness == Len(log) = 2 /\ log[1] # log[2]

\* C9: a call whose gate failed with a transport error has returned
\* rejected / gate-error.
C9_GateErrorSurfaced ==
    \A c \in Calls :
        verdict[c] = "TransportError"
            => /\ pc[c] = "returned"
               /\ result[c] = [status |-> "rejected", reason |-> "gate-error"]

\* C10: when the concurrent calls of a run, of pairwise distinct content, have
\* all returned, the ledger holds one record per call, each intact.
C10_ConcurrentCallsAllRecorded ==
    (/\ workload = "concurrent"
     /\ \A c \in Calls : pc[c] = "returned"
     /\ \A c, d \in Calls : c # d => proposal[c].content # proposal[d].content)
        => /\ Len(log) = NumCalls
           /\ \A c \in Calls : Cardinality({i \in DOMAIN log : log[i] = RecordFor(c)}) = 1

\* The calls whose log_proposal completed.
Logged(c) ==
    \/ pc[c] \in {"review", "gate"}
    \/ pc[c] = "returned" /\ result[c].status = "approved"
    \/ pc[c] = "returned" /\ result[c] = [status |-> "rejected", reason |-> "human-rejected"]
    \/ pc[c] = "raised" /\ error[c] = "TransportError"

\* Under every interleaving the ledger holds exactly the records of the calls
\* whose log_proposal completed, one each and each intact.
LoggedCallsIntact ==
    /\ Len(log) = Cardinality({c \in Calls : Logged(c)})
    /\ \A c \in Calls : Logged(c) => \E i \in DOMAIN log : log[i] = RecordFor(c)
    /\ \A i \in DOMAIN log : \E c \in Calls : Logged(c) /\ log[i] = RecordFor(c)

----------------------------------------------------------------------------
\* Claims, continued

\* The place of each step of route in its order: validate, screen, log, review
\* (the call of the gate and the wait in it), then the end of the call.
StageRank(p) ==
    CASE p = "idle" -> 0
      [] p = "validate" -> 1
      [] p = "scan" -> 2
      [] p = "log" -> 3
      [] p = "review" -> 4
      [] p = "gate" -> 5
      [] p \in {"returned", "raised"} -> 6

\* A call moves to the next stage or ends: it never goes back to a stage, stays
\* to repeat one, or skips one.
StagesInOrder ==
    \A c \in Calls :
        pc'[c] # pc[c] =>
            \/ StageRank(pc'[c]) = StageRank(pc[c]) + 1
            \/ pc'[c] \in {"returned", "raised"} /\ pc[c] \in {"validate", "scan", "log", "gate"}

\* A rejection stops the later stages: a role that fails validation is never
\* scanned, logged or reviewed; content that fails the scan is never logged or
\* reviewed; no stage is run twice.
RejectionStops ==
    \A c \in Calls :
        /\ scanned[c] <= 1
        /\ asked[c] <= 1
        /\ (pc[c] # "idle" /\ validate_role(proposal[c]) # "True") =>
            /\ pc[c] \in {"validate", "returned", "raised"}
            /\ scanned[c] = 0
            /\ asked[c] = 0
        /\ (scanned[c] = 1 /\ DenylistedAnyCase(proposal[c].content)) =>
            /\ pc[c] = "returned"
            /\ asked[c] = 0
        /\ (/\ pc[c] = "returned"
            /\ result[c].status = "rejected"
            /\ result[c].reason \in {"invalid-role", "risk-detected"}) => asked[c] = 0

\* C11: within one route call the stages validate, screen, log and review are
\* each attempted at most once and in that order, and a rejection stops all
\* later stages: the gate is never invoked for a proposal rejected as
\* invalid-role or as risk-detected.
C11_StagesOnceInOrder == [][StagesInOrder]_vars /\ []RejectionStops

\* C11 witness: of two calls of one run, one was rejected as risk-detected after
\* one scan and no review, the other went through all four stages once.
C11_Witness ==
    \E c, d \in Calls :
        /\ result[c] = [status |-> "rejected", reason |-> "risk-detected"]
        /\ scanned[c] = 1 /\ asked[c] = 0
        /\ pc[d] = "returned" /\ scanned[d] = 1 /\ asked[d] = 1

\* C12: while a call waits in a gate that routes to a human, where its caller
\* may abandon it, the ledger holds no record of its proposal, or the record
\* carries a terminal status.
C12_NoHalfWrittenRecord ==
    \A c \in Calls :
        (gate = "production" /\ pc[c] = "gate") =>
            \A i \in DOMAIN log :
                log[i].content = proposal[c].content =>
                    \/ "status" \in DOMAIN log[i]
                    \/ "decision" \in DOMAIN log[i]

\* C13: of two calls that both left a record, the one submitted first (the one
\* of the lower number) has its record before the other's in the ledger.
C13_LedgerInSubmissionOrder ==
    \A c, d \in Calls :
        (c < d /\ Logged(c) /\ Logged(d) /\ RecordFor(c) # RecordFor(d)) =>
            \E i, j \in DOMAIN log :
                i < j /\ log[i] = RecordFor(c) /\ log[j] = RecordFor(d)

\* The next step of call d can be taken now.
CanStep(d) ==
    CASE pc[d] = "idle" -> (\A e \in callers : e < d => pc[e] # "idle") => ENABLED Start(d)
      [] pc[d] = "validate" -> ENABLED Validate(d)
      [] pc[d] = "scan" -> ENABLED Scan(d)
      [] pc[d] = "log" -> ENABLED Log(d)
      [] pc[d] = "review" -> ENABLED Review(d)
      [] pc[d] = "gate" -> ENABLED GateAnswer(d)
      [] OTHER -> TRUE

\* C14: while a call waits in the gate, every other call of the run can take
\* its next step, whichever it is: submission, validation, screening, the
\* ledger append, the call of its own gate and the return on its answer.
C14_GateDoesNotBlockOthers ==
    \A c, d \in callers : (c # d /\ pc[c] = "gate") => CanStep(d)

\* C14 witness: the first call still waits for its verdict in the gate while the
\* call submitted after it has returned approved.
C14_Witness ==
    /\ gate = "production"
    /\ pc[1] = "gate" /\ verdict[1] = "none"
    /\ \E d \in Calls : d # 1 /\ pc[d] = "returned" /\ result[d].status = "approved"

\* C15: the content of a proposal built by normalize has no whitespace at either
\* end and is the raw content without its padding; normalizing the proposal
\* again changes nothing; absent (and empty) metadata becomes the empty mapping,
\* other metadata is kept.
C15_NormalizeIdempotent ==
    \A c \in Calls :
        submission[c].via = "normalize" =>
            LET p == proposal[c]
                raw == submission[c] IN
            /\ p.role = raw.role
            /\ IsTrimmed(p.content)
            /\ \E pre, post \in 0..Len(raw.content) :
                /\ pre + Len(p.content) + post = Len(raw.content)
                /\ \A i \in 1..pre : raw.content[i] \in Whitespace
                /\ \A i \in 1..Len(p.content) : p.content[i] = raw.content[pre + i]
                /\ \A i \in 1..post : raw.content[pre + Len(p.content) + i] \in Whitespace
            /\ normalize(p.role, p.content, p.metadata) = p
            /\ raw.metadata \in {None, Dict({})} => p.metadata = Dict({})
            /\ raw.metadata \notin {None, Dict({})} => p.metadata = raw.metadata

\* C15 witness: a submission padded on both sides and without metadata was
\* normalized to the bare content and the empty mapping.
C15_Witness ==
    \E c \in Calls :
        /\ submission[c].via = "normalize"
        /\ submission[c].metadata = None
        /\ submission[c].content = <<" ">> \o hello \o <<"\n">>
        /\ proposal[c].content = hello
        /\ proposal[c].metadata = Dict({})

C18_EveryMemberAccepted ==
    \A c \in Calls :
        (pc[c] \notin {"idle", "validate"} /\ proposal[c].role \in AgentRole) =>
            /\ ~(pc[c] = "returned" /\ result[c] = [status |-> "rejected", reason |-> "invalid-role"])
            /\ error[c] \notin {"TypeError", "AttributeError"}
            /\ pc[c] # "scan" => scanned[c] = 1
            /\ (proposal[c].role.name = "UNKNOWN" /\ ~DenylistedAnyCase(proposal[c].content)) =>
                /\ pc[c] = "returned" => result[c].status = "approved" \/ verdict[c] = "False"
                /\ pc[c] = "raised" => error[c] \in {"MemoryError", "TransportError"}
                /\ Logged(c) =>
                     \E i \in DOMAIN log :
                        log[i] = [role |-> "unknown", content |-> proposal[c].content,
                                  metadata |-> proposal[c].metadata]
                /\ (pc[c] = "returned" /\ verdict[c] = "True") =>
                     result[c] = [status |-> "approved", role |-> "unknown",
                                  content |-> proposal[c].content]

\* C18 witness: a call with role UNKNOWN has been logged with role "unknown"
\* and approved.
C18_Witness ==
    \E c \in Calls :
        /\ proposal[c].role = [cls |-> "AgentRole", name |-> "UNKNOWN", value |-> "unknown"]
        /\ pc[c] = "returned"
        /\ result[c] = [status |-> "approved", role |-> "unknown", content |-> proposal[c].content]
        /\ \E i \in DOMAIN log : log[i].role = "unknown" /\ log[i].content = proposal[c].content

\* The decision route returns for a role and a content when the gate approves,
\* read off lines 100-120: invalid-role unless `role in AgentRole` holds on the
\* build, risk-detected on a flagged term, else approved with the echo.
ExpectedDecision(role, content) ==
    IF ~ \/ role \in AgentRole
         \/ python = "py312" /\ role.cls = "str" /\ RoleId(role) \in {m.value : m \in AgentRole}
    THEN [status |-> "rejected", reason |-> "invalid-role"]
    ELSE IF DenylistedAnyCase(content)
         THEN [status |-> "rejected", reason |-> "risk-detected"]
         ELSE [status |-> "approved", role |-> RoleId(role), content |-> content]

\* C19: with the built-in gate (human_review returns True) every decision
\* route returns is determined by the proposal's role and content: two calls
\* that return and agree on role and content return equal decisions, whatever
\* their metadata, the ledger and the other calls of the run; the gate never
\* answers no, and human-rejected is never returned.
C19_DecisionByRoleAndContent ==
    gate = "placeholder" =>
        /\ \A c \in Calls :
            /\ verdict[c] \in {"none", "True"}
            /\ pc[c] = "returned" =>
                /\ result[c] = ExpectedDecision(proposal[c].role, proposal[c].content)
                /\ result[c] # [status |-> "rejected", reason |-> "human-rejected"]
        /\ \A c, d \in Calls :
            (/\ pc[c] = "returned" /\ pc[d] = "returned"
             /\ proposal[c].role = proposal[d].role
             /\ proposal[c].content = proposal[d].content) => result[c] = result[d]

\* C19 witness: under the built-in gate two calls with one role and one
\* content but different metadata have both been logged and returned approved.
C19_Witness ==
    /\ gate = "placeholder"
    /\ \E c, d \in Calls :
        /\ c # d
        /\ pc[c] = "returned" /\ pc[d] = "returned"
        /\ proposal[c].role = proposal[d].role
        /\ proposal[c].content = proposal[d].content
        /\ proposal[c].metadata # proposal[d].metadata
        /\ result[c].status = "approved" /\ result[d].status = "approved"
        /\ Len(log) = 2

====
